---------------------------- MODULE Spec2Model ----------------------------
(***************************************************************************)
(* Board interaction controller of the web chess game.                     *)
(*                                                                         *)
(* Two controllers of the repository are modelled:                         *)
(*   "full"  : src/app_ai.js lines 1-642 (AI opponent, undo/redo, flip,    *)
(*             threat overlay, reset)                                      *)
(*   "basic" : src/unnamed/part_000 (AI opponent only)                     *)
(* and, of the two-player script (src/app_ai.js lines 643-825), the status *)
(* text.                                                                   *)
(*                                                                         *)
(* The rules engine (chess.js) is an external library.  It is modelled by  *)
(* the ordinary chess rules for kings, pawns (single step, diagonal        *)
(* capture, promotion) and the four promotion pieces on a board cut down   *)
(* to the files a-c (ranks 1-8), started from a small endgame position, so *)
(* that promotion, check, checkmate and a draw by                          *)
(* insufficient material all occur within a few plies, and none of them    *)
(* within two plies of the starting position.                              *)
(***************************************************************************)
EXTENDS Integers, Sequences, FiniteSets, TLC

VARIABLES
  variant,         \* which controller file is running: "full" or "basic"
  game,            \* const game = new Chess()
  playerColor,     \* let playerColor
  aiColor,         \* let aiColor
  aiThinking,      \* let aiThinking
  redoStack,       \* let redoStack
  showThreats,     \* let showThreats
  flipped,         \* let flipped
  selectedSquare,  \* let selectedSquare
  possibleMoves,   \* let possibleMoves
  timers,          \* pending setTimeout callbacks, in scheduling order
  dom,             \* children of boardContainer and the overlay
  twin             \* a basic controller given the same events as this one

vars == <<variant, game, playerColor, aiColor, aiThinking, redoStack,
          showThreats, flipped, selectedSquare, possibleMoves, timers, dom,
          twin>>

---------------------------------------------------------------------------
(* Bounds of the model *)

\* longest move history explored
MaxPly == 4

\* most setTimeout callbacks pending at once
MaxTimers == 2

\* longest chain of renderBoard calls followed through verifyBoard
MaxNesting == 2

\* highest rank a piece stands on in the positions the status text is
\* computed for
MaxStatusRank == 3

(* Program constants *)

\* setTimeout(..., 400): the thinking delay
ThinkDelay == 400

\* setTimeout(..., 550): the animation duration
AnimDuration == 550

---------------------------------------------------------------------------
(***************************************************************************)
(* The rules engine (external: chess.js), as the controller uses it.       *)
(***************************************************************************)

Files == {1, 2, 3}
Ranks == 1..8
Squares == Files \X Ranks
NoSquare == <<0, 0>>

Colors == {"w", "b"}
PromotionPieces == {"q", "r", "b", "n"}

Empty == [type |-> "-", color |-> "-"]

Piece(t, c) == [type |-> t, color |-> c]

Other(c) == IF c = "w" THEN "b" ELSE "w"

Abs(x) == IF x < 0 THEN -x ELSE x

Sgn(x) == IF x < 0 THEN -1 ELSE IF x > 0 THEN 1 ELSE 0

Max2(x, y) == IF x > y THEN x ELSE y

\* new Chess(): the starting position of the cut-down game
StartBoard ==
  [sq \in Squares |->
     IF sq = <<1, 1>> THEN Piece("k", "b")
     ELSE IF sq = <<1, 6>> THEN Piece("p", "w")
     ELSE IF sq = <<3, 2>> THEN Piece("k", "w")
     ELSE Empty]

\* every square strictly between from and to (on a line or diagonal) is empty
PathClear(board, from, to) ==
  LET df == to[1] - from[1]
      dr == to[2] - from[2]
      n  == Max2(Abs(df), Abs(dr))
  IN \A k \in 1..(n - 1) :
        board[<<from[1] + k * Sgn(df), from[2] + k * Sgn(dr)>>] = Empty

\* the piece on from attacks the square to
Attacks(board, from, to) ==
  LET p  == board[from]
      df == to[1] - from[1]
      dr == to[2] - from[2]
      line == df = 0 \/ dr = 0
      diag == Abs(df) = Abs(dr)
  IN /\ from # to
     /\ CASE p.type = "k" -> Abs(df) <= 1 /\ Abs(dr) <= 1
          [] p.type = "p" -> Abs(df) = 1 /\ dr = (IF p.color = "w" THEN 1 ELSE -1)
          [] p.type = "n" -> {Abs(df), Abs(dr)} = {1, 2}
          [] p.type = "r" -> line /\ PathClear(board, from, to)
          [] p.type = "b" -> diag /\ PathClear(board, from, to)
          [] p.type = "q" -> (line \/ diag) /\ PathClear(board, from, to)
          [] OTHER -> FALSE

Mv(c, from, to, p, cap, promo) ==
  [color |-> c, from |-> from, to |-> to, piece |-> p,
   captured |-> cap, promotion |-> promo,
   flags |-> (IF cap # "-" THEN "c" ELSE "n") \o (IF promo # "-" THEN "p" ELSE "")]

\* the moves of the piece on from, king safety not yet considered
PieceMoves(board, from) ==
  LET p == board[from]
      c == p.color
      fwd == IF c = "w" THEN 1 ELSE -1
      last == IF c = "w" THEN 8 ELSE 1
  IN IF p.type = "p"
     THEN LET tos == {to \in Squares :
                        \/ /\ to[1] = from[1] /\ to[2] = from[2] + fwd
                           /\ board[to] = Empty
                        \/ /\ Attacks(board, from, to)
                           /\ board[to].color = Other(c)}
          IN UNION {IF to[2] = last
                    THEN {Mv(c, from, to, "p", board[to].type, pr) : pr \in PromotionPieces}
                    ELSE {Mv(c, from, to, "p", board[to].type, "-")} : to \in tos}
     ELSE {Mv(c, from, to, p.type, board[to].type, "-") :
             to \in {t \in Squares : Attacks(board, from, t) /\ board[t].color # c}}

MakeMove(board, m) ==
  [board EXCEPT ![m.from] = Empty,
                ![m.to] = Piece(IF m.promotion # "-" THEN m.promotion ELSE m.piece,
                                m.color)]

UnmakeMove(board, m) ==
  [board EXCEPT ![m.to] = IF m.captured # "-"
                          THEN Piece(m.captured, Other(m.color)) ELSE Empty,
                ![m.from] = Piece(m.piece, m.color)]

KingAttacked(board, c) ==
  \E k \in Squares :
     /\ board[k] = Piece("k", c)
     /\ \E s \in Squares : board[s].color = Other(c) /\ Attacks(board, s, k)

\* the legal moves of side c: those that do not leave its king attacked
LegalMoves(board, c) ==
  UNION {{m \in PieceMoves(board, from) : ~KingAttacked(MakeMove(board, m), c)} :
           from \in {s \in Squares : board[s].color = c}}

\* a game: the board, the side to move and the moves made, with the move
\* list, the check status and the squares holding a piece that the engine
\* derives from them (computed once for each position)
Position(board, c, hist) ==
  [board |-> board, turn |-> c, history |-> hist,
   legal |-> LegalMoves(board, c), check |-> KingAttacked(board, c),
   pieces |-> {sq \in Squares : board[sq] # Empty}]

\* new Chess() and game.reset()
NewGame == Position(StartBoard, "w", <<>>)

\* game.moves({verbose: true}): the legal moves of the side to move
moves(g) == g.legal

\* game.moves({square: sq, verbose: true})
movesOf(g, sq) == {m \in moves(g) : m.from = sq}

\* game.turn()
turn(g) == g.turn

\* game.board(): the squares whose entry is a piece
occupied(g) == g.pieces

\* game.get(square): the piece on the square, Empty for null
get(g, sq) == IF sq \in Squares THEN g.board[sq] ELSE Empty

\* game.history(): one entry for each move made
history(g) == g.history

\* the legal moves a move request {from, to, promotion} matches
Matching(g, req) ==
  {m \in moves(g) :
     /\ m.from = req.from
     /\ m.to = req.to
     /\ (m.promotion = "-" \/ m.promotion = req.promotion)}

\* game.move({from, to, promotion}) succeeds (does not return null)
moveOk(g, req) == Matching(g, req) # {}

\* game.move({from, to, promotion}): the game afterwards (unchanged when the
\* request matches no legal move and chess.js returns null)
move(g, req) ==
  IF ~moveOk(g, req) THEN g
  ELSE LET m == CHOOSE x \in Matching(g, req) : TRUE
       IN Position(MakeMove(g.board, m), Other(g.turn), Append(g.history, m))

\* game.undo(): the game afterwards (unchanged when there is nothing to undo)
undo(g) ==
  IF g.history = <<>> THEN g
  ELSE LET m == g.history[Len(g.history)]
       IN Position(UnmakeMove(g.board, m), Other(g.turn),
                   SubSeq(g.history, 1, Len(g.history) - 1))

in_check(g) == g.check

in_checkmate(g) == in_check(g) /\ moves(g) = {}

in_stalemate(g) == ~in_check(g) /\ moves(g) = {}

\* K v K, or K v K and one bishop or knight
insufficient_material(g) ==
  LET occ == occupied(g)
      minor == {s \in occ : g.board[s].type \in {"b", "n"}}
  IN \/ Cardinality(occ) = 2
     \/ Cardinality(occ) = 3 /\ Cardinality(minor) = 1

\* the fifty-move rule and threefold repetition need more plies than MaxPly
in_draw(g) == in_stalemate(g) \/ insufficient_material(g)

game_over(g) == in_checkmate(g) \/ in_stalemate(g) \/ insufficient_material(g)

---------------------------------------------------------------------------
(***************************************************************************)
(* The controller.  Every handler is an operator from the controller state *)
(* (a record of the module-level variables of the script, the pending      *)
(* timers and the DOM) to the state it leaves behind.                      *)
(***************************************************************************)

Cur ==
  [variant |-> variant, game |-> game, playerColor |-> playerColor,
   aiColor |-> aiColor, aiThinking |-> aiThinking, redoStack |-> redoStack,
   showThreats |-> showThreats, flipped |-> flipped,
   selectedSquare |-> selectedSquare, possibleMoves |-> possibleMoves,
   timers |-> timers, dom |-> dom]

NoMove == Mv("-", NoSquare, NoSquare, "-", "-", "-")

\* a pending setTimeout callback: the thinking delay of triggerAiMove, or the
\* end of an animation, which holds the move and whether its temporary glyph
\* is still a child of boardContainer
ThinkTask == [kind |-> "think", move |-> NoMove, attached |-> FALSE]

\* an animation whose glyph a render has dropped: its timer will throw
\* before it uses the move
DroppedTask == [kind |-> "anim", move |-> NoMove, attached |-> FALSE]

AnimTask(m) == [kind |-> "anim", move |-> m, attached |-> TRUE]

Delay(task) == IF task.kind = "think" THEN ThinkDelay ELSE AnimDuration

\* timers fire in the order of their deadlines: a callback cannot run before
\* one that was scheduled earlier with a delay no longer than its own
CanFire(ts, i) == \A j \in 1..(i - 1) : Delay(ts[j]) > Delay(ts[i])

RemoveAt(seq, i) == SubSeq(seq, 1, i - 1) \o SubSeq(seq, i + 1, Len(seq))

\* what prompt() can return: null (cancelled), the empty string, or a text
PromptAnswers == {"null", "", "q", "N", "r", "B", "x"}

\* choice.toLowerCase() that leaves capitals as they are
toLowerCase_Identity(str) == str

\* choice.toLowerCase()
toLowerCase(str) ==
  CASE str = "N" -> "n"
    [] str = "B" -> "b"
    [] OTHER -> str

\* initThreatOverlay(): the overlay is created as a child of boardContainer
initThreatOverlay(s) ==
  IF s.dom.overlay THEN s ELSE [s EXCEPT !.dom.overlay = TRUE]

\* the threats updateThreatOverlay collects: each legal move of an opposing
\* piece that captures, and each after which the player is in check
Threats(s) ==
  LET opponent == IF s.playerColor = "w" THEN "b" ELSE "w"
      from == {sq \in occupied(s.game) : s.game.board[sq].color = opponent}
      ms == UNION {movesOf(s.game, sq) : sq \in from}
      req(m) == [from |-> m.from, to |-> m.to, promotion |-> m.promotion]
  IN {[from |-> m.from, to |-> m.to, type |-> "capture"] :
        m \in {x \in ms : x.flags \in {"c", "cp"}}}
     \cup
     {[from |-> m.from, to |-> m.to, type |-> "check"] :
        m \in {x \in ms : LET after == move(s.game, req(x))
                          IN in_check(after) /\ turn(after) = s.playerColor}}

\* the legal moves updateThreatOverlay tries: game.moves({square}) for each
\* square holding a piece of the opponent
ThreatMoves(s) ==
  LET opponent == IF s.playerColor = "w" THEN "b" ELSE "w"
  IN UNION {movesOf(s.game, sq) :
              sq \in {x \in occupied(s.game) :
                        s.game.board[x].color = opponent}}

RECURSIVE tryMoves_NoUndo(_, _)
\* the loop of updateThreatOverlay without game.undo()
tryMoves_NoUndo(g, ms) ==
  IF ms = {} THEN g
  ELSE LET m == CHOOSE x \in ms : TRUE
       IN tryMoves_NoUndo(move(g, [from |-> m.from, to |-> m.to,
                                   promotion |-> m.promotion]), ms \ {m})

RECURSIVE tryMoves(_, _)
\* the loop of updateThreatOverlay over the moves ms: game.move(move), the
\* test of game.in_check(), game.undo(); the game the loop leaves behind
tryMoves(g, ms) ==
  IF ms = {} THEN g
  ELSE LET m == CHOOSE x \in ms : TRUE
       IN tryMoves(undo(move(g, [from |-> m.from, to |-> m.to,
                                 promotion |-> m.promotion])), ms \ {m})

\* updateThreatOverlay(): returns when the overlay element is not in the
\* document; clears the arrows; when showThreats, tries the opponent's
\* moves and draws one arrow for each threat
updateThreatOverlay(s) ==
  IF ~s.dom.overlay THEN s
  ELSE IF ~s.showThreats THEN [s EXCEPT !.dom.arrows = {}]
  ELSE [s EXCEPT !.dom.arrows = Threats(s),
                 !.game = tryMoves(s.game, ThreatMoves(s))]

\* updateMoveList() that would not clear the list before filling it
updateMoveList_NoClear(s) ==
  LET h == history(s.game)
  IN [s EXCEPT !.dom.moveList =
        @ \o [k \in 1..((Len(h) + 1) \div 2) |->
                <<h[2 * k - 1]>> \o (IF 2 * k <= Len(h) THEN <<h[2 * k]>> ELSE <<>>)]]

\* updateMoveList(): the list is cleared and one item is appended for each
\* pair history[i], history[i + 1], i = 0, 2, 4, ...: the first move and,
\* if there is one, the second
updateMoveList(s) ==
  LET h == history(s.game)
  IN [s EXCEPT !.dom.moveList =
        [k \in 1..((Len(h) + 1) \div 2) |->
           <<h[2 * k - 1]>> \o (IF 2 * k <= Len(h) THEN <<h[2 * k]>> ELSE <<>>)]]

\* 'White' or 'Black'
ColorName(c) == IF c = "w" THEN "White" ELSE "Black"

\* status.replace(/\n/g, '<br>') on the pieces of the status text
replaceNewlines(text) ==
  [k \in 1..Len(text) |-> IF text[k] = "\n" THEN "<br>" ELSE text[k]]

\* the part of the status text that updateStatus() derives from the game
gameStatus(g) ==
  LET moveColor == ColorName(turn(g))
  IN IF in_checkmate(g) THEN <<"Game over: ", moveColor, " is in checkmate.">>
     ELSE IF in_draw(g) THEN <<"Game over: draw.">>
     ELSE <<moveColor, " to move.">>
          \o (IF in_check(g) THEN <<" (Check!)">> ELSE <<>>)

\* updateStatus() that would leave out the check marker
updateStatus_NoCheckMarker(s) ==
  LET moveColor == ColorName(turn(s.game))
      status == <<"You are playing ", ColorName(s.playerColor), ".", "\n">>
                \o (IF in_checkmate(s.game)
                    THEN <<"Game over: ", moveColor, " is in checkmate.">>
                    ELSE IF in_draw(s.game) THEN <<"Game over: draw.">>
                    ELSE <<moveColor, " to move.">>)
  IN [s EXCEPT !.dom.status = replaceNewlines(status)]

\* updateStatus() of the controllers with an AI opponent: statusEl.innerHTML
updateStatus(s) ==
  LET status == <<"You are playing ", ColorName(s.playerColor), ".", "\n">>
                \o gameStatus(s.game)
  IN [s EXCEPT !.dom.status = replaceNewlines(status)]

\* updateStatus() of the two-player script (the second script of
\* src/app_ai.js), which has no sides to assign: statusEl.textContent for
\* the game g
updateStatusMain(g) == gameStatus(g)

\* boardContainer.children.length: the square elements, the temporary
\* glyphs of the animations in flight, and the overlay
children(s) ==
  Cardinality(s.dom.squares)
  + Cardinality({i \in 1..Len(s.timers) :
                   s.timers[i].kind = "anim" /\ s.timers[i].attached})
  + (IF s.dom.overlay THEN 1 ELSE 0)

\* verifyBoard(): the mismatch it looks for: the container does not hold one
\* child for each square of the board, or a square with a piece has no
\* element with an image, or a square without a piece has one, which is to
\* say that the squares shown with an image are not the squares with a piece
verifyBoardMismatch(s) ==
  \/ children(s) # Cardinality(Squares)
  \/ (s.dom.squares \cap s.dom.imgs) # occupied(s.game)

\* renderBoard(), the loop over the display: the cell of game.board() that
\* is drawn at display row rDisplay and display column cDisplay (both from
\* 0) when the orientation is f, as <<row, col>>
displayCell(rDisplay, cDisplay, f) ==
  <<IF f THEN 7 - rDisplay ELSE rDisplay,
    IF f THEN (Cardinality(Files) - 1) - cDisplay ELSE cDisplay>>

\* renderBoard(): squareName = 'abcdefgh'[col] + (8 - row)
squareName(row, col) == <<col + 1, 8 - row>>

\* the square elements of boardContainer after a render: the display
\* position, dataset.square and whether an image was put in
RenderedSquares(s) ==
  {LET cell == displayCell(rDisplay, cDisplay, s.dom.orient)
       name == squareName(cell[1], cell[2])
   IN [at |-> <<rDisplay, cDisplay>>, square |-> name,
       img |-> name \in s.dom.imgs] :
     rDisplay \in 0..7, cDisplay \in 0..(Cardinality(Files) - 1)}

\* the rebuilding of the squares that would leave the temporary glyph of an
\* animation on the board
rebuildSquares_KeepsGlyph(s) ==
  [s EXCEPT !.dom = [squares |-> Squares,
                     imgs |-> occupied(s.game),
                     orient |-> s.flipped,
                     overlay |-> FALSE,
                     arrows |-> {},
                     renders |-> s.dom.renders,
                     status |-> s.dom.status,
                     moveList |-> s.dom.moveList]]

\* the rebuilding of the squares that would leave the overlay in the
\* container
rebuildSquares_KeepsOverlay(s) ==
  [s EXCEPT !.dom = [squares |-> Squares,
                     imgs |-> occupied(s.game),
                     orient |-> s.flipped,
                     overlay |-> s.dom.overlay,
                     arrows |-> {},
                     renders |-> s.dom.renders,
                     status |-> s.dom.status,
                     moveList |-> s.dom.moveList],
            !.timers = [i \in 1..Len(s.timers) |->
                          IF s.timers[i].kind = "anim"
                          THEN DroppedTask ELSE s.timers[i]]]

\* renderBoard(), up to the end of its loop: boardContainer.innerHTML = ''
\* drops every child (squares, temporary glyphs, the overlay); one element
\* is appended for each square, with an image where game.board() has a
\* piece (think tasks have no glyph and stay as they are)
rebuildSquares(s) ==
  [s EXCEPT !.dom = [squares |-> Squares,
                     imgs |-> occupied(s.game),
                     orient |-> s.flipped,
                     overlay |-> FALSE,
                     arrows |-> {},
                     renders |-> s.dom.renders,
                     status |-> s.dom.status,
                     moveList |-> s.dom.moveList],
            !.timers = [i \in 1..Len(s.timers) |->
                          IF s.timers[i].kind = "anim"
                          THEN DroppedTask ELSE s.timers[i]]]

RECURSIVE renderBoardFrom(_, _)
\* renderBoard() entered as call number depth of a chain: the squares are
\* rebuilt, then updateStatus(), updateMoveList(), verifyBoard(), which
\* calls renderBoard() again when it finds a mismatch (followed as far as
\* MaxNesting calls), and updateThreatOverlay()
renderBoardFrom(s, depth) ==
  LET built == updateStatus([rebuildSquares(s) EXCEPT !.dom.renders = depth])
  IN IF s.variant # "full" THEN built
     ELSE LET listed == updateMoveList(built)
              verified == IF verifyBoardMismatch(listed) /\ depth < MaxNesting
                          THEN renderBoardFrom(listed, depth + 1)
                          ELSE listed
          IN updateThreatOverlay(verified)

\* renderBoard()
renderBoard(s) == renderBoardFrom(s, 1)

\* triggerAiMove() without the test of game.game_over()
triggerAiMove_NoGameOverCheck(s) ==
  IF turn(s.game) # s.aiColor THEN s
  ELSE [s EXCEPT !.aiThinking = TRUE, !.timers = Append(@, ThinkTask)]

\* triggerAiMove(): schedules the thinking delay
triggerAiMove(s) ==
  IF turn(s.game) # s.aiColor \/ game_over(s.game) THEN s
  ELSE [s EXCEPT !.aiThinking = TRUE, !.timers = Append(@, ThinkTask)]

\* the state when the script has run: new Chess(), the random side
\* assignment r, initThreatOverlay(), renderBoard(), triggerAiMove()
Construct(v, r) ==
  LET s0 == [variant |-> v, game |-> NewGame, playerColor |-> r,
             aiColor |-> IF r = "w" THEN "b" ELSE "w", aiThinking |-> FALSE,
             redoStack |-> <<>>, showThreats |-> FALSE, flipped |-> FALSE,
             selectedSquare |-> NoSquare, possibleMoves |-> {},
             timers |-> <<>>,
             dom |-> [squares |-> {}, imgs |-> {}, orient |-> FALSE, overlay |-> FALSE,
                      arrows |-> {}, renders |-> 0, status |-> <<>>,
                      moveList |-> <<>>]]
      s1 == renderBoard(IF v = "full" THEN initThreatOverlay(s0) ELSE s0)
  IN IF s1.aiColor = "w" THEN triggerAiMove(s1) ELSE s1

\* resetGame() with the AI's side left as it was
resetGame_KeepAiColor(s, r) ==
  LET s1 == [s EXCEPT !.game = NewGame,
                      !.playerColor = r,
                      !.selectedSquare = NoSquare,
                      !.possibleMoves = {},
                      !.aiThinking = FALSE,
                      !.flipped = FALSE]
      s2 == updateThreatOverlay(updateMoveList(renderBoard(s1)))
      s3 == IF s2.aiColor = "w" THEN triggerAiMove(s2) ELSE s2
  IN [s3 EXCEPT !.redoStack = <<>>]

\* resetGame() with the orientation left as it was
resetGame_KeepOrientation(s, r) ==
  LET s1 == [s EXCEPT !.game = NewGame,
                      !.playerColor = r,
                      !.aiColor = IF r = "w" THEN "b" ELSE "w",
                      !.selectedSquare = NoSquare,
                      !.possibleMoves = {},
                      !.aiThinking = FALSE]
      s2 == updateThreatOverlay(updateMoveList(renderBoard(s1)))
      s3 == IF s2.aiColor = "w" THEN triggerAiMove(s2) ELSE s2
  IN [s3 EXCEPT !.redoStack = <<>>]

\* resetGame() with the redo stack left as it was
resetGame_KeepRedo(s, r) ==
  LET s1 == [s EXCEPT !.game = NewGame,
                      !.playerColor = r,
                      !.aiColor = IF r = "w" THEN "b" ELSE "w",
                      !.selectedSquare = NoSquare,
                      !.possibleMoves = {},
                      !.aiThinking = FALSE,
                      !.flipped = FALSE]
      s2 == updateThreatOverlay(updateMoveList(renderBoard(s1)))
  IN IF s2.aiColor = "w" THEN triggerAiMove(s2) ELSE s2

\* resetGame(), r the new random side of the human
resetGame(s, r) ==
  LET s1 == [s EXCEPT !.game = NewGame,
                      !.playerColor = r,
                      !.aiColor = IF r = "w" THEN "b" ELSE "w",
                      !.selectedSquare = NoSquare,
                      !.possibleMoves = {},
                      !.aiThinking = FALSE,
                      !.flipped = FALSE]
      s2 == updateThreatOverlay(updateMoveList(renderBoard(s1)))
      s3 == IF s2.aiColor = "w" THEN triggerAiMove(s2) ELSE s2
  IN [s3 EXCEPT !.redoStack = <<>>]

\* flipBoard() that also drops the selection
flipBoard_ClearSelection(s) ==
  renderBoard([s EXCEPT !.flipped = ~@,
                        !.selectedSquare = NoSquare,
                        !.possibleMoves = {}])

\* flipBoard()
flipBoard(s) == renderBoard([s EXCEPT !.flipped = ~@])

\* undoLastMove() without the render
undoLastMove_NoRender(s) ==
  IF s.aiThinking THEN s
  ELSE IF history(s.game) = <<>> THEN s
  ELSE LET undone == s.game.history[Len(s.game.history)]
       IN [s EXCEPT !.game = undo(s.game),
                    !.redoStack = Append(@, undone),
                    !.selectedSquare = NoSquare,
                    !.possibleMoves = {},
                    !.aiThinking = FALSE]

\* undoLastMove() without the test of aiThinking
undoLastMove_NoBusyCheck(s) ==
  IF history(s.game) = <<>> THEN s
  ELSE LET undone == s.game.history[Len(s.game.history)]
           s1 == [s EXCEPT !.game = undo(s.game),
                           !.redoStack = Append(@, undone),
                           !.selectedSquare = NoSquare,
                           !.possibleMoves = {},
                           !.aiThinking = FALSE]
       IN updateThreatOverlay(updateMoveList(renderBoard(s1)))

\* undoLastMove() that forgets the move it takes back
undoLastMove_NoPush(s) ==
  IF s.aiThinking THEN s
  ELSE IF history(s.game) = <<>> THEN s
  ELSE LET s1 == [s EXCEPT !.game = undo(s.game),
                           !.selectedSquare = NoSquare,
                           !.possibleMoves = {},
                           !.aiThinking = FALSE]
       IN updateThreatOverlay(updateMoveList(renderBoard(s1)))

\* undoLastMove() with the selection left as it was
undoLastMove_KeepSelection(s) ==
  IF s.aiThinking THEN s
  ELSE IF history(s.game) = <<>> THEN s
  ELSE LET undone == s.game.history[Len(s.game.history)]
           s1 == [s EXCEPT !.game = undo(s.game),
                           !.redoStack = Append(@, undone),
                           !.aiThinking = FALSE]
       IN updateThreatOverlay(updateMoveList(renderBoard(s1)))

\* undoLastMove()
undoLastMove(s) ==
  IF s.aiThinking THEN s
  ELSE IF history(s.game) = <<>> THEN s
  ELSE LET undone == s.game.history[Len(s.game.history)]
           s1 == [s EXCEPT !.game = undo(s.game),
                           !.redoStack = Append(@, undone),
                           !.selectedSquare = NoSquare,
                           !.possibleMoves = {},
                           !.aiThinking = FALSE]
       IN updateThreatOverlay(updateMoveList(renderBoard(s1)))

\* redoMove() that takes the oldest entry of the redo stack
redoMove_Oldest(s) ==
  IF s.aiThinking \/ Len(s.redoStack) = 0 THEN s
  ELSE LET m == s.redoStack[1]
           redoObj == [from |-> m.from, to |-> m.to,
                       promotion |-> IF m.promotion # "-" THEN m.promotion ELSE "-"]
           s1 == [s EXCEPT !.redoStack = SubSeq(@, 2, Len(@)),
                           !.game = move(s.game, redoObj),
                           !.selectedSquare = NoSquare,
                           !.possibleMoves = {}]
       IN updateThreatOverlay(updateMoveList(renderBoard(s1)))

\* redoMove() with the promotion piece left out of the move it replays
redoMove_NoPromotion(s) ==
  IF s.aiThinking \/ Len(s.redoStack) = 0 THEN s
  ELSE LET m == s.redoStack[Len(s.redoStack)]
           redoObj == [from |-> m.from, to |-> m.to, promotion |-> "-"]
           s1 == [s EXCEPT !.redoStack = SubSeq(@, 1, Len(@) - 1),
                           !.game = move(s.game, redoObj),
                           !.selectedSquare = NoSquare,
                           !.possibleMoves = {}]
       IN updateThreatOverlay(updateMoveList(renderBoard(s1)))

\* redoMove()
redoMove(s) ==
  IF s.aiThinking \/ Len(s.redoStack) = 0 THEN s
  ELSE LET m == s.redoStack[Len(s.redoStack)]
           redoObj == [from |-> m.from, to |-> m.to,
                       promotion |-> IF m.promotion # "-" THEN m.promotion ELSE "-"]
           s1 == [s EXCEPT !.redoStack = SubSeq(@, 1, Len(@) - 1),
                           !.game = move(s.game, redoObj),
                           !.selectedSquare = NoSquare,
                           !.possibleMoves = {}]
       IN updateThreatOverlay(updateMoveList(renderBoard(s1)))

\* toggleThreats()
toggleThreats(s) == updateThreatOverlay([s EXCEPT !.showThreats = ~@])

\* onSquareClick asks prompt() for a piece: a pawn is moved to its far rank
Prompts(s, square) ==
  LET movingPiece == get(s.game, s.selectedSquare)
      targetRank == square[2]
  IN /\ s.variant = "full"
     /\ movingPiece # Empty /\ movingPiece.type = "p"
     /\ \/ movingPiece.color = "w" /\ targetRank = 8
        \/ movingPiece.color = "b" /\ targetRank = 1

\* the promotion piece onSquareClick passes to game.move for a move of the
\* selected piece to square, choice being what prompt() returns
PromotionFor(s, square, choice) ==
  IF Prompts(s, square)
     THEN IF choice \notin {"null", ""} /\ toLowerCase(choice) \in {"q", "r", "b", "n"}
          THEN toLowerCase(choice) ELSE "q"
     ELSE "-"

\* the gate of onSquareClick without the test of the side to move
ClickGated_NoTurnCheck(s) == s.aiThinking

\* onSquareClick returns at once: the AI is busy or it is not the human's turn
ClickGated(s) == s.aiThinking \/ turn(s.game) # s.playerColor

\* the moving branch of onSquareClick with the redo stack left as it was
clickMove_KeepRedo(s, square, choice) ==
  LET promotion == PromotionFor(s, square, choice)
      s1 == [s EXCEPT !.game = move(s.game, [from |-> s.selectedSquare,
                                             to |-> square,
                                             promotion |-> promotion]),
                      !.selectedSquare = NoSquare,
                      !.possibleMoves = {}]
      s2 == renderBoard(s1)
  IN triggerAiMove(IF s.variant = "full"
                   THEN updateThreatOverlay(updateMoveList(s2)) ELSE s2)

\* onSquareClick, the branch that moves the selected piece to square
clickMove(s, square, choice) ==
  LET promotion == PromotionFor(s, square, choice)
      s1 == [s EXCEPT !.game = move(s.game, [from |-> s.selectedSquare,
                                             to |-> square,
                                             promotion |-> promotion]),
                      !.selectedSquare = NoSquare,
                      !.possibleMoves = {},
                      !.redoStack = <<>>]
      s2 == renderBoard(s1)
  IN triggerAiMove(IF s.variant = "full"
                   THEN updateThreatOverlay(updateMoveList(s2)) ELSE s2)

\* the selecting branch of onSquareClick with the moves of every piece
clickSelect_AllMoves(s, square) ==
  renderBoard([s EXCEPT !.selectedSquare = square,
                        !.possibleMoves = {m.to : m \in moves(s.game)}])

\* onSquareClick, the branch that selects the piece on square
clickSelect(s, square) ==
  renderBoard([s EXCEPT !.selectedSquare = square,
                        !.possibleMoves = {m.to : m \in movesOf(s.game, square)}])

\* onSquareClick, the branch that clears the selection
clickDeselect(s) ==
  LET s1 == renderBoard([s EXCEPT !.selectedSquare = NoSquare,
                                  !.possibleMoves = {}])
  IN IF s.variant = "full" THEN updateThreatOverlay(s1) ELSE s1

\* onSquareClick(event), square the clicked square, choice what prompt()
\* returns if it is asked
onSquareClick(s, square, choice) ==
  IF ClickGated(s) THEN s
  ELSE LET piece == get(s.game, square) IN
    IF s.selectedSquare # NoSquare /\ square \in s.possibleMoves
    THEN clickMove(s, square, choice)
    ELSE IF piece # Empty /\ piece.color = turn(s.game)
    THEN clickSelect(s, square)
    ELSE clickDeselect(s)

\* the completion callback triggerAiMove hands to animateAIMove
aiMoveCallback(s, m) ==
  LET s1 == [s EXCEPT !.game = move(s.game, [from |-> m.from, to |-> m.to,
                                              promotion |-> m.promotion]),
                      !.selectedSquare = NoSquare,
                      !.possibleMoves = {},
                      !.aiThinking = FALSE,
                      !.redoStack = IF s.variant = "full" THEN <<>> ELSE @]
      s2 == renderBoard(s1)
  IN IF s.variant = "full" THEN updateThreatOverlay(updateMoveList(s2)) ELSE s2

\* animateAIMove(move, callback): the temporary glyph is appended to
\* boardContainer, the source square is emptied, and the callback is left
\* to a timer of AnimDuration
animateAIMove(s, m) ==
  IF get(s.game, m.from) = Empty THEN aiMoveCallback(s, m)
  ELSE [s EXCEPT !.dom.imgs = @ \ {m.from},
                 !.timers = Append(@, AnimTask(m))]

\* the callback of the thinking delay with the basic controller rendering the
\* highlight after the animation has started
aiThinkTimeout_RenderAfterAnimate(s, i, m) ==
  LET s0 == [s EXCEPT !.timers = RemoveAt(@, i)]
  IN IF moves(s0.game) = {} THEN [s0 EXCEPT !.aiThinking = FALSE]
     ELSE IF s.variant = "full"
     THEN animateAIMove([s0 EXCEPT !.selectedSquare = NoSquare,
                                   !.possibleMoves = {}], m)
     ELSE renderBoard(animateAIMove([s0 EXCEPT !.selectedSquare = m.from,
                                               !.possibleMoves = {m.to}], m))

\* the callback of the thinking delay (timer i), m the move drawn at random
aiThinkTimeout(s, i, m) ==
  LET s0 == [s EXCEPT !.timers = RemoveAt(@, i)]
  IN IF moves(s0.game) = {} THEN [s0 EXCEPT !.aiThinking = FALSE]
     ELSE IF s.variant = "full"
     THEN animateAIMove([s0 EXCEPT !.selectedSquare = NoSquare,
                                   !.possibleMoves = {}], m)
     ELSE animateAIMove(renderBoard([s0 EXCEPT !.selectedSquare = m.from,
                                               !.possibleMoves = {m.to}]), m)

\* the callback at the end of an animation (timer i):
\* boardContainer.removeChild(movingPiece) throws when a render has dropped
\* the glyph, and the completion callback is then never called
animTimeout(s, i) ==
  LET task == s.timers[i]
      s0 == [s EXCEPT !.timers = RemoveAt(@, i)]
  IN IF ~task.attached THEN s0
     ELSE aiMoveCallback(s0, task.move)

---------------------------------------------------------------------------
(***************************************************************************)
(* The specification: the events of the page, each running one handler.    *)
(***************************************************************************)

Bounded(n) == Len(n.game.history) <= MaxPly /\ Len(n.timers) <= MaxTimers

\* no second controller is run beside this one
NoTwin == [variant |-> "none"]

Install(n) ==
  /\ Bounded(n)
  /\ variant' = n.variant
  /\ game' = n.game
  /\ playerColor' = n.playerColor
  /\ aiColor' = n.aiColor
  /\ aiThinking' = n.aiThinking
  /\ redoStack' = n.redoStack
  /\ showThreats' = n.showThreats
  /\ flipped' = n.flipped
  /\ selectedSquare' = n.selectedSquare
  /\ possibleMoves' = n.possibleMoves
  /\ timers' = n.timers
  /\ dom' = n.dom
  /\ twin' = twin

Init == \E v \in {"full", "basic"}, r \in Colors :
          LET n == Construct(v, r)
          IN /\ variant = n.variant
             /\ game = n.game
             /\ playerColor = n.playerColor
             /\ aiColor = n.aiColor
             /\ aiThinking = n.aiThinking
             /\ redoStack = n.redoStack
             /\ showThreats = n.showThreats
             /\ flipped = n.flipped
             /\ selectedSquare = n.selectedSquare
             /\ possibleMoves = n.possibleMoves
             /\ timers = n.timers
             /\ dom = n.dom
             /\ twin = NoTwin

\* the click reaches prompt(): it moves a pawn to its far rank
Asks(s, square) ==
  /\ ~ClickGated(s)
  /\ s.selectedSquare # NoSquare /\ square \in s.possibleMoves
  /\ Prompts(s, square)

\* a click on a square of the board
Click == \E square \in Squares :
           \E choice \in (IF Asks(Cur, square) THEN PromptAnswers ELSE {"null"}) :
              Install(onSquareClick(Cur, square, choice))

\* the buttons, which only the full controller has
Reset == variant = "full" /\ \E r \in Colors : Install(resetGame(Cur, r))

Flip == variant = "full" /\ Install(flipBoard(Cur))

Undo == variant = "full" /\ Install(undoLastMove(Cur))

Redo == variant = "full" /\ Install(redoMove(Cur))

ToggleThreats == variant = "full" /\ Install(toggleThreats(Cur))

\* a thinking delay expires
ThinkTimeout ==
  \E i \in 1..Len(timers) :
     /\ timers[i].kind = "think"
     /\ CanFire(timers, i)
     /\ \E m \in (IF moves(game) = {} THEN {NoMove} ELSE moves(game)) :
           Install(aiThinkTimeout(Cur, i, m))

\* an animation's duration expires
AnimTimeout ==
  \E i \in 1..Len(timers) :
     /\ timers[i].kind = "anim"
     /\ CanFire(timers, i)
     /\ Install(animTimeout(Cur, i))

Next == \/ Click
        \/ Reset
        \/ Flip
        \/ Undo
        \/ Redo
        \/ ToggleThreats
        \/ ThinkTimeout
        \/ AnimTimeout

Spec == Init /\ [][Next]_vars

---------------------------------------------------------------------------
(***************************************************************************)
(* The status text as a function of the position.  The positions are drawn *)
(* from the endings of the game played on the cut-down board: the two      *)
(* kings alone, or with a white queen or knight (a promoted pawn), either  *)
(* side to move; the controller is idle and renders.                       *)
(***************************************************************************)

StatusSquares == {sq \in Squares : sq[2] <= MaxStatusRank}

StatusBoards ==
  {[sq \in Squares |->
      IF sq = bk THEN Piece("k", "b")
      ELSE IF sq = wk THEN Piece("k", "w")
      ELSE IF sq = x THEN Piece(t, "w")
      ELSE Empty] :
     bk \in StatusSquares, wk \in StatusSquares,
     x \in StatusSquares \cup {NoSquare}, t \in {"q", "n"}}

\* the positions that can arise in play: one king of each colour, and the
\* side that has just moved is not in check
StatusPositions ==
  {Position(b, c, <<>>) :
     b \in {x \in StatusBoards :
              /\ \E sq \in Squares : x[sq] = Piece("k", "b")
              /\ \E sq \in Squares : x[sq] = Piece("k", "w")},
     c \in {k \in Colors : TRUE}}

InitStatus ==
  \E v \in {"full", "basic"}, r \in Colors, g \in StatusPositions :
     /\ ~KingAttacked(g.board, Other(g.turn))
     /\ LET n == renderBoard([Construct(v, r) EXCEPT !.game = g,
                                                     !.aiThinking = FALSE,
                                                     !.timers = <<>>])
        IN /\ variant = n.variant
           /\ game = n.game
           /\ playerColor = n.playerColor
           /\ aiColor = n.aiColor
           /\ aiThinking = n.aiThinking
           /\ redoStack = n.redoStack
           /\ showThreats = n.showThreats
           /\ flipped = n.flipped
           /\ selectedSquare = n.selectedSquare
           /\ possibleMoves = n.possibleMoves
           /\ timers = n.timers
           /\ dom = n.dom
           /\ twin = NoTwin

\* the board is rendered, which writes the status
Render == Install(renderBoard(Cur))

NextStatus == Render

SpecStatus == InitStatus /\ [][NextStatus]_vars

---------------------------------------------------------------------------
(***************************************************************************)
(* The two controllers side by side: the full controller and a basic       *)
(* controller (twin) are constructed with the same side assignment and are *)
(* given the same clicks, the same timer firings and the same random draws *)
(* of the AI's move.  Only clicks and timers occur, and no pawn is         *)
(* promoted.                                                               *)
(***************************************************************************)

\* the click would move a pawn of s to its far rank
PromotionClick(s, square) ==
  LET movingPiece == get(s.game, s.selectedSquare)
  IN /\ ~ClickGated(s)
     /\ s.selectedSquare # NoSquare /\ square \in s.possibleMoves
     /\ movingPiece # Empty /\ movingPiece.type = "p"
     /\ square[2] \in {1, 8}

InstallBoth(n, t) ==
  /\ Bounded(n) /\ Bounded(t)
  /\ variant' = n.variant
  /\ game' = n.game
  /\ playerColor' = n.playerColor
  /\ aiColor' = n.aiColor
  /\ aiThinking' = n.aiThinking
  /\ redoStack' = n.redoStack
  /\ showThreats' = n.showThreats
  /\ flipped' = n.flipped
  /\ selectedSquare' = n.selectedSquare
  /\ possibleMoves' = n.possibleMoves
  /\ timers' = n.timers
  /\ dom' = n.dom
  /\ twin' = t

InitTwin ==
  \E r \in Colors :
     LET n == Construct("full", r)
     IN /\ variant = n.variant
        /\ game = n.game
        /\ playerColor = n.playerColor
        /\ aiColor = n.aiColor
        /\ aiThinking = n.aiThinking
        /\ redoStack = n.redoStack
        /\ showThreats = n.showThreats
        /\ flipped = n.flipped
        /\ selectedSquare = n.selectedSquare
        /\ possibleMoves = n.possibleMoves
        /\ timers = n.timers
        /\ dom = n.dom
        /\ twin = Construct("basic", r)

\* the same square is clicked on both boards
ClickBoth ==
  \E square \in Squares :
     /\ ~PromotionClick(Cur, square) /\ ~PromotionClick(twin, square)
     /\ InstallBoth(onSquareClick(Cur, square, "null"),
                    onSquareClick(twin, square, "null"))

\* the thinking delay expires in both controllers, and both draw move m
ThinkBoth ==
  \E i \in 1..Len(timers) :
     /\ timers[i].kind = "think" /\ CanFire(timers, i)
     /\ i <= Len(twin.timers)
     /\ twin.timers[i].kind = "think" /\ CanFire(twin.timers, i)
     /\ \E m \in (IF moves(game) = {} THEN {NoMove}
                  ELSE {x \in moves(game) : x.promotion = "-"}) :
           /\ moves(twin.game) # {} => m \in moves(twin.game)
           /\ InstallBoth(aiThinkTimeout(Cur, i, m),
                          aiThinkTimeout(twin, i, m))

\* the animation's duration expires in both controllers
AnimBoth ==
  \E i \in 1..Len(timers) :
     /\ timers[i].kind = "anim" /\ CanFire(timers, i)
     /\ i <= Len(twin.timers)
     /\ twin.timers[i].kind = "anim" /\ CanFire(twin.timers, i)
     /\ InstallBoth(animTimeout(Cur, i), animTimeout(twin, i))

NextTwin == \/ ClickBoth
            \/ ThinkBoth
            \/ AnimBoth

SpecTwin == InitTwin /\ [][NextTwin]_vars

---------------------------------------------------------------------------
(***************************************************************************)
(* Properties of the controller.  A handler is a function of the state, so *)
(* a property of a handler is stated at every reachable state, over every  *)
(* input the handler can be given there.                                   *)
(***************************************************************************)

\* the answers prompt() can give to a click on square in state s
Answers(s, square) == IF Asks(s, square) THEN PromptAnswers ELSE {"null"}

\* the click applies a move: the history grows
Moved(s, n) == Len(history(n.game)) > Len(history(s.game))

\* C1 (turn gating): while the AI is busy or the side to move is not the
\* human's, a click on any square changes nothing: no field of the
\* controller, no selection, no move, no timer scheduled.
C1_TurnGating ==
  (aiThinking \/ turn(game) # playerColor) =>
    \A square \in Squares : \A choice \in Answers(Cur, square) :
       onSquareClick(Cur, square, choice) = Cur

\* a gated state in which the click would otherwise select a piece: it is
\* the AI's turn to move and no automated turn is under way
C1_Witness ==
  /\ ~aiThinking /\ turn(game) # playerColor
  /\ \E square \in Squares : get(game, square) # Empty
                             /\ get(game, square).color = turn(game)
                             /\ movesOf(game, square) # {}

\* C2 (all human interaction rejected while the AI is busy): in a state with
\* aiThinking true, a click, undo, redo, reset, flip and the threat toggle
\* each leave every part of the controller state as it was.
C2_BusyRejectsAll ==
  aiThinking =>
    /\ \A square \in Squares : \A choice \in PromptAnswers :
          onSquareClick(Cur, square, choice) = Cur
    /\ variant = "full" =>
         /\ undoLastMove(Cur) = Cur
         /\ redoMove(Cur) = Cur
         /\ \A r \in Colors : resetGame(Cur, r) = Cur
         /\ flipBoard(Cur) = Cur
         /\ toggleThreats(Cur) = Cur

\* C3 (move application clears redo): in the state right after a move is
\* applied, by a click of the human or by the completion callback of the
\* automated turn, the redo stack is empty.
C3_MoveClearsRedo ==
  /\ \A square \in Squares : \A choice \in Answers(Cur, square) :
        LET n == onSquareClick(Cur, square, choice)
        IN Moved(Cur, n) => n.redoStack = <<>>
  /\ \A i \in 1..Len(timers) :
        /\ timers[i].kind = "anim" =>
             LET n == animTimeout(Cur, i)
             IN Moved(Cur, n) => n.redoStack = <<>>
        /\ timers[i].kind = "think" =>
             \A m \in moves(game) :
                LET n == aiThinkTimeout(Cur, i, m)
                IN Moved(Cur, n) => n.redoStack = <<>>

\* moves have been undone and the human now plays a different move
C3_Witness ==
  /\ redoStack # <<>>
  /\ \E square \in Squares : \E choice \in Answers(Cur, square) :
        LET n == onSquareClick(Cur, square, choice)
        IN Moved(Cur, n) /\ n.game.history[Len(n.game.history)]
                              # redoStack[Len(redoStack)]

\* redo() right after undo() gives back the position, the side to move and
\* the length of the history
RoundTrip(s) ==
  LET n == redoMove(undoLastMove(s))
  IN /\ n.game.board = s.game.board
     /\ turn(n.game) = turn(s.game)
     /\ Len(history(n.game)) = Len(history(s.game))

\* C4 as stated (undo/redo round trip): in every reachable state, undo()
\* and then redo() restore the position, the side to move and the length of
\* the history.
C4_RoundTripAlways == variant = "full" => RoundTrip(Cur)

\* C4 (undo/redo round trip), where undo() takes a move back or redo() has
\* nothing to replay: with a non-empty history, or the AI busy, or an empty
\* redo stack, undo() and then redo() restore the position, the side to
\* move and the length of the history.
C4_RoundTrip ==
  (variant = "full"
   /\ (history(game) # <<>> \/ aiThinking \/ redoStack = <<>>)) => RoundTrip(Cur)

\* undo() takes back a promotion, which redo() has to replay with its piece
C4_Witness ==
  /\ variant = "full" /\ ~aiThinking /\ history(game) # <<>>
  /\ game.history[Len(game.history)].promotion = "n"
  /\ undoLastMove(Cur).redoStack # <<>>

\* C5 (the automated turn idles with one move): when the animation of the
\* automated turn under way ends, aiThinking goes from true to false and
\* exactly one move has been appended to the history, whatever was
\* displayed in between.
C5_TurnEndsWithOneMove ==
  \A i \in 1..Len(timers) :
     (aiThinking /\ Len(timers) = 1 /\ timers[i].kind = "anim") =>
        LET n == animTimeout(Cur, i)
        IN /\ ~n.aiThinking
           /\ Len(history(n.game)) = Len(history(game)) + 1

\* C6 (terminal stability for human input): in a state where the engine
\* reports checkmate or a draw, also a draw by rule with legal moves left,
\* no click appends a move to the history.
C6_TerminalNoHumanMove ==
  (in_checkmate(game) \/ in_draw(game)) =>
     \A square \in Squares : \A choice \in PromptAnswers :
        ~Moved(Cur, onSquareClick(Cur, square, choice))

\* C7 (triggerAiMove is a no-op off turn or after the end): when the side
\* to move is not the AI's or the game is over, triggerAiMove leaves
\* aiThinking and the timers as they are; and once the engine reports
\* checkmate or a draw no step of an automated turn appends a move.
C7_TriggerNoOpAndNoMoveAfterEnd ==
  /\ (turn(game) # aiColor \/ game_over(game)) => triggerAiMove(Cur) = Cur
  /\ (in_checkmate(game) \/ in_draw(game)) =>
        \A i \in 1..Len(timers) :
           /\ timers[i].kind = "anim" => ~Moved(Cur, animTimeout(Cur, i))
           /\ timers[i].kind = "think" =>
                \A m \in moves(game) : ~Moved(Cur, aiThinkTimeout(Cur, i, m))

\* the human has moved into a draw by insufficient material: the AI is to
\* move and has legal moves, and nothing has been scheduled
C7_Witness ==
  /\ in_draw(game) /\ moves(game) # {}
  /\ turn(game) = aiColor /\ history(game) # <<>>
  /\ ~aiThinking /\ timers = <<>>

\* C8 (side assignment): the human's side and the AI's side are the two
\* colours and never the same, at the start and after every reset, and a
\* reset can give the human either colour.
C8_SidesComplementary ==
  /\ playerColor \in Colors /\ aiColor \in Colors /\ aiColor # playerColor
  /\ variant = "full" =>
       \A r \in Colors :
          LET n == resetGame(Cur, r)
          IN n.playerColor = r /\ n.aiColor \in Colors \ {r}

\* a reset has swapped the sides while the thinking delay of the former
\* AI side was pending: the human now has white, no move is played, the
\* AI is not busy and the timer is still there
C8_Witness ==
  /\ variant = "full" /\ playerColor = "w" /\ aiColor = "b"
  /\ history(game) = <<>> /\ ~aiThinking /\ timers # <<>>

\* C9 (selection correctness): an accepted click on a piece of the side to
\* move, on a square that is not a destination of the selection, selects
\* that square, with exactly the destinations of the legal moves the engine
\* lists for it.
C9_SelectionCorrect ==
  \A square \in Squares :
     (/\ ~(aiThinking \/ turn(game) # playerColor)
      /\ get(game, square) # Empty /\ get(game, square).color = turn(game)
      /\ ~(selectedSquare # NoSquare /\ square \in possibleMoves)) =>
        LET n == onSquareClick(Cur, square, "null")
        IN /\ n.selectedSquare = square
           /\ n.possibleMoves =
                {to \in Squares : \E m \in moves(game) : m.from = square /\ m.to = to}

\* the human has two pieces that can move, one is selected and the other
\* can be clicked
C9_Witness ==
  /\ ~aiThinking /\ turn(game) = playerColor
  /\ selectedSquare # NoSquare /\ possibleMoves # {}
  /\ \E square \in Squares \ ({selectedSquare} \cup possibleMoves) :
        /\ get(game, square) # Empty /\ get(game, square).color = turn(game)
        /\ movesOf(game, square) # {}

\* the selected square holds a piece of the side to move, which is the human's
SelectionOfHuman ==
  selectedSquare # NoSquare =>
     /\ get(game, selectedSquare) # Empty
     /\ get(game, selectedSquare).color = turn(game)
     /\ get(game, selectedSquare).color = playerColor

HumanCalls(s) ==
  {onSquareClick(s, square, choice) :
     square \in Squares, choice \in PromptAnswers}
  \cup (IF s.variant = "full"
        THEN {undoLastMove(s), redoMove(s), flipBoard(s), toggleThreats(s)}
             \cup {resetGame(s, r) : r \in Colors}
        ELSE {})

\* the timer callbacks that can run in state s, with every move they can draw
TimerCalls(s) ==
  UNION {IF s.timers[i].kind = "anim" THEN {animTimeout(s, i)}
         ELSE {aiThinkTimeout(s, i, m) :
                 m \in (IF moves(s.game) = {} THEN {NoMove} ELSE moves(s.game))} :
         i \in {j \in 1..Len(s.timers) : CanFire(s.timers, j)}}

\* C11 (lifecycle of aiThinking): aiThinking becomes true only together with
\* the scheduling of the thinking delay; it goes from true to false only in a
\* timer callback that has applied the automated move; no handler of the
\* human, reset included, clears it while a timer or an animation is pending.
C11_BusyLifecycle ==
  /\ \A n \in HumanCalls(Cur) \cup TimerCalls(Cur) :
        (~aiThinking /\ n.aiThinking) => Len(n.timers) = Len(timers) + 1
  /\ \A n \in TimerCalls(Cur) :
        (aiThinking /\ ~n.aiThinking) => Moved(Cur, n)
  /\ \A n \in HumanCalls(Cur) :
        (aiThinking /\ timers # <<>>) => n.aiThinking

\* C12 (aiThinking covers the animation): while the temporary glyph of an
\* automated move is on the board and its completion callback has not run,
\* aiThinking is true.
C12_BusyDuringAnimation ==
  (\E i \in 1..Len(timers) : timers[i].kind = "anim" /\ timers[i].attached)
     => aiThinking

\* C13 (human move application): an accepted click on a destination of the
\* selection applies the move from the selected square to the clicked one,
\* the history grows by exactly that move, selection and redo stack are
\* empty afterwards, and aiThinking is true afterwards unless the game is over.
C13_HumanMoveApplied ==
  \A square \in Squares :
     (/\ ~(aiThinking \/ turn(game) # playerColor)
      /\ selectedSquare # NoSquare /\ square \in possibleMoves) =>
        \A choice \in Answers(Cur, square) :
           LET n == onSquareClick(Cur, square, choice)
               h == history(n.game)
           IN /\ Len(h) = Len(history(game)) + 1
              /\ SubSeq(h, 1, Len(h) - 1) = history(game)
              /\ h[Len(h)].from = selectedSquare /\ h[Len(h)].to = square
              /\ n.selectedSquare = NoSquare /\ n.possibleMoves = {}
              /\ n.redoStack = <<>>
              /\ n.aiThinking = ~game_over(n.game)

\* C14 (promotion): a move the human applies carries a promotion piece
\* exactly when the selected piece is a pawn moved to its far rank (8 for
\* white, 1 for black); the piece is the answer to prompt() when that is,
\* in either case, one of q, r, b, n, and the queen for any other, empty or
\* cancelled answer.
C14_Promotion ==
  \A square \in Squares :
     (/\ ~(aiThinking \/ turn(game) # playerColor)
      /\ selectedSquare # NoSquare /\ square \in possibleMoves) =>
        \A choice \in Answers(Cur, square) :
           LET n == onSquareClick(Cur, square, choice)
               h == history(n.game)
               p == get(game, selectedSquare)
               far == /\ p.type = "p"
                      /\ \/ p.color = "w" /\ square[2] = 8
                         \/ p.color = "b" /\ square[2] = 1
               expected == IF ~far THEN "-"
                           ELSE IF choice \in {"q", "r", "b", "n"} THEN choice
                           ELSE IF choice = "N" THEN "n"
                           ELSE IF choice = "B" THEN "b"
                           ELSE "q"
           IN Moved(Cur, n) => h[Len(h)].promotion = expected

\* the human has selected a pawn that can move to its far rank, and is asked
C14_Witness ==
  /\ variant = "full" /\ ~aiThinking /\ turn(game) = playerColor
  /\ selectedSquare # NoSquare /\ get(game, selectedSquare).type = "p"
  /\ \E square \in possibleMoves :
        /\ square[2] = 8
        /\ Moved(Cur, onSquareClick(Cur, square, "N"))

\* C15 (failure of undo and redo): undo() with aiThinking true or an empty
\* history, and redo() with aiThinking true or an empty redo stack, change
\* nothing.
C15_UndoRedoNoOp ==
  variant = "full" =>
    /\ (aiThinking \/ history(game) = <<>>) => undoLastMove(Cur) = Cur
    /\ (aiThinking \/ redoStack = <<>>) => redoMove(Cur) = Cur

\* the AI is busy with moves to take back; or there is nothing to take back
\* while moves can be replayed
C15_Witness ==
  /\ variant = "full" /\ aiThinking /\ history(game) # <<>> /\ timers # <<>>

RECURSIVE Replay(_)
\* the board after the moves of h, played from the starting position
Replay(h) ==
  IF h = <<>> THEN StartBoard
  ELSE MakeMove(Replay(SubSeq(h, 1, Len(h) - 1)), h[Len(h)])

\* C16 (effect of undo): undo() with aiThinking false and a non-empty
\* history takes back exactly the last move, puts it on top of the redo
\* stack, and leaves the selection empty and aiThinking false.
C16_UndoEffect ==
  (variant = "full" /\ ~aiThinking /\ history(game) # <<>>) =>
     LET n == undoLastMove(Cur)
         h == history(game)
     IN /\ history(n.game) = SubSeq(h, 1, Len(h) - 1)
        /\ n.game.board = Replay(SubSeq(h, 1, Len(h) - 1))
        /\ turn(n.game) = h[Len(h)].color
        /\ n.redoStack = Append(redoStack, h[Len(h)])
        /\ n.selectedSquare = NoSquare /\ n.possibleMoves = {}
        /\ ~n.aiThinking

\* a second move can be taken back while the human has a piece selected
C16_Witness ==
  /\ variant = "full" /\ ~aiThinking /\ Len(history(game)) >= 1
  /\ redoStack # <<>> /\ selectedSquare # NoSquare

\* C17 (effect of redo): redo() with aiThinking false and a non-empty redo
\* stack takes the top entry off the stack, the rest staying, and applies a
\* move with its source, destination and promotion piece: the history grows
\* by that one move; the selection is empty afterwards.
C17_RedoEffect ==
  (variant = "full" /\ ~aiThinking /\ redoStack # <<>>) =>
     LET n == redoMove(Cur)
         top == redoStack[Len(redoStack)]
         h == history(n.game)
     IN /\ n.redoStack = SubSeq(redoStack, 1, Len(redoStack) - 1)
        /\ Len(h) = Len(history(game)) + 1
        /\ SubSeq(h, 1, Len(h) - 1) = history(game)
        /\ h[Len(h)].from = top.from /\ h[Len(h)].to = top.to
        /\ h[Len(h)].promotion = top.promotion
        /\ n.selectedSquare = NoSquare /\ n.possibleMoves = {}

\* two moves have been taken back, the later of them a promotion
C17_Witness ==
  /\ variant = "full" /\ ~aiThinking /\ Len(redoStack) >= 2
  /\ redoStack[1].promotion # "-"

\* C18 (state after reset): resetGame() called in any reachable state, for
\* either side it may draw, leaves the starting position with an empty
\* history and no terminal status, an empty selection and redo stack, the
\* default orientation, and aiThinking true exactly when the AI has white,
\* its thinking delay then being scheduled.
C18_ResetPostState ==
  variant = "full" =>
    \A r \in Colors :
       LET n == resetGame(Cur, r)
       IN /\ n.game = NewGame /\ history(n.game) = <<>>
          /\ ~game_over(n.game)
          /\ n.selectedSquare = NoSquare /\ n.possibleMoves = {}
          /\ n.redoStack = <<>>
          /\ ~n.flipped
          /\ n.playerColor = r /\ n.aiColor = Other(r)
          /\ n.aiThinking = (n.aiColor = "w")
          /\ n.aiColor = "w" =>
                /\ Len(n.timers) = Len(timers) + 1
                /\ n.timers[Len(n.timers)] = ThinkTask
          /\ n.aiColor # "w" => Len(n.timers) = Len(timers)

\* the game has ended in checkmate on a flipped board
C18_Witness ==
  /\ variant = "full" /\ in_checkmate(game) /\ flipped /\ history(game) # <<>>

\* C19 (flip): flipBoard() toggles flipped and changes nothing else of the
\* game, its history, the selection with its destinations, the redo stack,
\* aiThinking and the sides; every square keeps its name and its piece, only
\* its place on the display is mirrored; a second flipBoard() gives the
\* orientation back.
C19_FlipFrame ==
  variant = "full" =>
    LET n == flipBoard(Cur)
        last == <<7, Cardinality(Files) - 1>>
    IN /\ n.flipped = ~flipped
       /\ n.game = game
       /\ n.selectedSquare = selectedSquare /\ n.possibleMoves = possibleMoves
       /\ n.redoStack = redoStack
       /\ n.aiThinking = aiThinking
       /\ n.playerColor = playerColor /\ n.aiColor = aiColor
       /\ n.showThreats = showThreats
       /\ flipBoard(n).flipped = flipped
       /\ \A e \in RenderedSquares(n) :
             /\ e.img = (game.board[e.square] # Empty)
             /\ e.square = squareName(displayCell(e.at[1], e.at[2], n.flipped)[1],
                                      displayCell(e.at[1], e.at[2], n.flipped)[2])
       /\ {e.square : e \in RenderedSquares(n)} = Squares
       /\ \A e \in RenderedSquares(n), d \in RenderedSquares(renderBoard(Cur)) :
             e.square = d.square =>
                /\ e.img = d.img
                /\ e.at = <<last[1] - d.at[1], last[2] - d.at[2]>>

\* the board is flipped while the human has a piece selected and a move
\* can be replayed
C19_Witness ==
  /\ variant = "full" /\ flipped /\ selectedSquare # NoSquare
  /\ possibleMoves # {} /\ redoStack # <<>>

\* C20 (undo and reset in terminal states): whenever the game is in
\* checkmate or drawn, aiThinking is false, so undoLastMove() with a move to
\* take back takes it back and resetGame() starts a new game.
C20_TerminalNotBusy ==
  (in_checkmate(game) \/ in_draw(game)) =>
     /\ ~aiThinking
     /\ variant = "full" =>
          /\ history(game) # <<>> =>
               history(undoLastMove(Cur).game) =
                  SubSeq(history(game), 1, Len(history(game)) - 1)
          /\ \A r \in Colors : resetGame(Cur, r).game = NewGame

\* the game is drawn after a move of the AI
C20_Witness ==
  /\ variant = "full" /\ in_draw(game) /\ ~in_checkmate(game)
  /\ history(game) # <<>> /\ turn(game) = playerColor

\* the game, the redo stack, the selection and aiThinking of n are those of
\* the current state
SameGame(n) ==
  /\ n.game = game
  /\ n.redoStack = redoStack
  /\ n.selectedSquare = selectedSquare /\ n.possibleMoves = possibleMoves
  /\ n.aiThinking = aiThinking

\* C21 (the threat overlay only displays): toggleThreats() and
\* updateThreatOverlay() leave the game (position, side to move, history),
\* the redo stack, the selection and aiThinking as they were; while the
\* overlay is switched on, the loop over the opponent's moves undoes each
\* move it tries, so it too leaves the game as it found it.
C21_OverlayDisplayOnly ==
  variant = "full" =>
    /\ SameGame(toggleThreats(Cur))
    /\ SameGame(updateThreatOverlay(Cur))
    /\ showThreats => tryMoves(game, ThreatMoves(Cur)) = game
    /\ toggleThreats(Cur).showThreats = ~showThreats

\* the overlay is switched on while the opponent is to move and has a
\* threat among the moves to try
C21_Witness ==
  /\ variant = "full" /\ showThreats /\ turn(game) = aiColor
  /\ ThreatMoves(Cur) # {} /\ Threats(Cur) # {}

\* C22 (content of the threat overlay): while showThreats is set the arrows
\* drawn are exactly one capture arrow for each legal move of a piece of the
\* opponent that captures and one check arrow for each such move that leaves
\* the human in check; while it is not set no arrow is drawn.
C22_OverlayContent ==
  variant = "full" =>
    /\ showThreats => dom.arrows = Threats(Cur)
    /\ ~showThreats => dom.arrows = {}

\* C23 (render after every change): whenever no animation of an AI move is
\* in flight, a square of the rendered board shows a piece exactly when the
\* game has a piece on that square.
C23_RenderedAgrees ==
  (~\E i \in 1..Len(timers) : timers[i].kind = "anim" /\ timers[i].attached) =>
     /\ \A sq \in Squares : (sq \in dom.imgs) = (get(game, sq) # Empty)
     /\ ~verifyBoardMismatch(Cur)
     /\ \A e \in RenderedSquares(Cur) : e.img = (get(game, e.square) # Empty)

\* moves have been made, one of them a promotion, and one taken back, with
\* no animation in flight
C23_Witness ==
  /\ variant = "full" /\ redoStack # <<>> /\ history(game) # <<>>
  /\ redoStack[Len(redoStack)].promotion # "-"
  /\ ~\E i \in 1..Len(timers) : timers[i].kind = "anim" /\ timers[i].attached

\* C24 (the AI moves only its own side): every move a timer callback
\* applies is a move of a piece of the side the AI has at that moment.
C24_AiMovesOwnSide ==
  \A n \in TimerCalls(Cur) :
     Moved(Cur, n) =>
        LET h == history(n.game) IN h[Len(h)].color = aiColor

\* C25 (the AI is scheduled on its turn): whenever the AI's side is to move
\* and the game is not over, aiThinking is true and a timer of the
\* automated turn is pending.
C25_AiScheduledOnItsTurn ==
  (turn(game) = aiColor /\ ~game_over(game)) =>
     /\ aiThinking
     /\ \E i \in 1..Len(timers) :
           timers[i].kind = "think" \/ timers[i].attached

\* C26 (one automated turn at a time): the thinking delays pending and the
\* animations in flight are never more than one together.
C26_OnePendingTurn ==
  Cardinality({i \in 1..Len(timers) :
                 timers[i].kind = "think" \/ timers[i].attached}) <= 1

\* C27 (the completion callback runs): when the timer of an animation
\* expires, the completion callback runs, whatever was rendered meanwhile:
\* aiThinking is false and the selection empty afterwards, and a move legal
\* at that moment has been applied.
C27_CallbackRuns ==
  \A i \in 1..Len(timers) :
     (timers[i].kind = "anim" /\ CanFire(timers, i)) =>
        LET n == animTimeout(Cur, i)
        IN /\ ~n.aiThinking
           /\ n.selectedSquare = NoSquare /\ n.possibleMoves = {}
           /\ moves(game) # {} => Moved(Cur, n)

\* C28 (the AI's move is legal when applied): the move of every animation
\* in flight is a legal move of the game as it is, the game not having
\* changed since the move was drawn; the callback applies exactly that move.
C28_AiMoveLegal ==
  \A i \in 1..Len(timers) :
     (timers[i].kind = "anim" /\ timers[i].attached) =>
        /\ timers[i].move \in moves(game)
        /\ CanFire(timers, i) =>
              history(animTimeout(Cur, i).game) =
                 Append(history(game), timers[i].move)

\* an animation of a move other than the first of the game is in flight
C28_Witness ==
  /\ history(game) # <<>>
  /\ \E i \in 1..Len(timers) :
        timers[i].kind = "anim" /\ timers[i].attached /\ CanFire(timers, i)

\* C29 (the redo stack fits the position): the top entry of a non-empty
\* redo stack is a legal move of the game as it is, and redoMove() applies
\* it; a click, a reset or a timer callback that changes the game leaves the
\* redo stack empty.
C29_RedoStackConsistent ==
  variant = "full" =>
    /\ redoStack # <<>> =>
         LET top == redoStack[Len(redoStack)]
         IN /\ top \in moves(game)
            /\ ~aiThinking =>
                  history(redoMove(Cur).game) = Append(history(game), top)
    /\ \A square \in Squares : \A choice \in Answers(Cur, square) :
          LET n == onSquareClick(Cur, square, choice)
          IN n.game # game => n.redoStack = <<>>
    /\ \A r \in Colors : resetGame(Cur, r).redoStack = <<>>
    /\ \A n \in TimerCalls(Cur) : n.game # game => n.redoStack = <<>>

\* moves have been taken back and a timer left by an earlier game is pending
C29_Witness ==
  /\ variant = "full" /\ redoStack # <<>> /\ timers # <<>>

\* C30 (the selection is never stale): whenever a square is selected, the
\* destinations stored are the destinations of the legal moves of the piece
\* on it, and a click on any of them applies a move.
C30_SelectionFresh ==
  selectedSquare # NoSquare =>
     /\ possibleMoves = {m.to : m \in movesOf(game, selectedSquare)}
     /\ ~(aiThinking \/ turn(game) # playerColor) =>
           \A square \in possibleMoves : \A choice \in Answers(Cur, square) :
              Moved(Cur, onSquareClick(Cur, square, choice))

\* C31 (rendering terminates): the check at the end of a render finds the
\* board it looks at to be the one just rebuilt, one element for each square
\* and an image exactly on the occupied squares, so no render calls
\* renderBoard() again: every render is a single call.
C31_RenderTerminates ==
  variant = "full" =>
    /\ dom.renders = 1
    /\ \A n \in {Cur, [Cur EXCEPT !.flipped = ~@]} :
          LET built == rebuildSquares(n)
          IN /\ children(built) = Cardinality(Squares)
             /\ built.dom.imgs = {sq \in Squares : get(game, sq) # Empty}
             /\ ~verifyBoardMismatch(built)
             /\ renderBoard(n).dom.renders = 1

\* the board has been rendered while the glyph of an animation was on it
C31_Witness ==
  /\ variant = "full" /\ history(game) # <<>>
  /\ \E i \in 1..Len(timers) : timers[i] = DroppedTask

\* the text the claims on the status expect for the game as it is: one of
\* three forms that exclude each other
ExpectedGameStatus ==
  CASE in_checkmate(game) ->
         <<"Game over: ", ColorName(turn(game)), " is in checkmate.">>
    [] ~in_checkmate(game) /\ in_draw(game) -> <<"Game over: draw.">>
    [] ~in_checkmate(game) /\ ~in_draw(game) /\ in_check(game) ->
         <<ColorName(turn(game)), " to move.", " (Check!)">>
    [] ~in_checkmate(game) /\ ~in_draw(game) /\ ~in_check(game) ->
         <<ColorName(turn(game)), " to move.">>

\* the text names the side the human has now
NamesHumanSide(text) ==
  \E k \in 1..(Len(text) - 1) :
     text[k] = "You are playing " /\ text[k + 1] = ColorName(playerColor)

\* the text ends with the form expected for the game as it is
EndsWithGameStatus(text) ==
  /\ Len(text) >= Len(ExpectedGameStatus)
  /\ SubSeq(text, Len(text) - Len(ExpectedGameStatus) + 1, Len(text))
       = ExpectedGameStatus

\* C32 as stated (status display): the status of every controller names the
\* human's side and ends with one of the three forms, derived from the game
\* as it is.
C32_StatusAlways ==
  \A text \in {dom.status, updateStatusMain(game)} :
     NamesHumanSide(text) /\ EndsWithGameStatus(text)

\* C32 (status display): the status of the controllers with an AI opponent
\* is the line naming the human's side followed by one of the three forms:
\* checkmate of the side to move, else draw, else the side to move, with the
\* check marker exactly when it is in check; the status of the two-player
\* script is that form alone.
C32_Status ==
  /\ NamesHumanSide(dom.status)
  /\ dom.status = <<"You are playing ", ColorName(playerColor), ".", "<br>">>
                  \o ExpectedGameStatus
  /\ updateStatusMain(game) = ExpectedGameStatus

\* the side to move is in check and has a move
C32_Witness ==
  /\ in_check(game) /\ ~in_checkmate(game) /\ ~in_draw(game)
  /\ moves(game) # {} /\ turn(game) # playerColor

RECURSIVE Flatten(_)
\* the moves of the items of a move list, in order
Flatten(list) ==
  IF list = <<>> THEN <<>> ELSE list[1] \o Flatten(Tail(list))

\* C33 (move list): the list shown has one item for every two moves of the
\* history, item k holding moves 2k-1 and 2k (the last item one move when
\* the number of moves is odd), so the items together are the history.
C33_MoveList ==
  variant = "full" =>
    LET h == history(game)
        list == dom.moveList
    IN /\ Len(list) = (Len(h) + 1) \div 2
       /\ \A k \in 1..Len(list) :
             /\ list[k][1] = h[2 * k - 1]
             /\ IF 2 * k <= Len(h)
                THEN Len(list[k]) = 2 /\ list[k][2] = h[2 * k]
                ELSE Len(list[k]) = 1
       /\ Flatten(list) = h

\* an odd number of moves, three or more, is shown after an undo
C33_Witness ==
  /\ variant = "full" /\ Len(history(game)) >= 3
  /\ Len(history(game)) % 2 = 1 /\ redoStack # <<>>

\* the pending callbacks of a controller: what each is, and whether it will
\* run to its end
Pending(ts) == [i \in 1..Len(ts) |-> <<ts[i].kind, ts[i].attached>>]

\* C34 (the variants agree): given the same clicks, timer firings and random
\* draws, with no undo, redo, reset, flip or threat toggle and no pawn
\* promotion, the full controller and the basic controller have the same
\* game (position, side to move, history), the same aiThinking and the same
\* pending callbacks after every step; the selection is the same too except
\* while the automated move is animated.
C34_VariantsAgree ==
  /\ variant = "full" /\ twin.variant = "basic"
  /\ twin.game = game
  /\ history(twin.game) = history(game)
  /\ twin.aiThinking = aiThinking
  /\ twin.playerColor = playerColor /\ twin.aiColor = aiColor
  /\ Pending(twin.timers) = Pending(timers)
  /\ (\A i \in 1..Len(timers) : timers[i].kind # "anim") =>
        /\ twin.selectedSquare = selectedSquare
        /\ twin.possibleMoves = possibleMoves

\* both sides have moved, and an automated move is being animated in both
\* controllers, the basic one highlighting it
C34_Witness ==
  /\ twin.variant = "basic"
  /\ Len(history(game)) >= 2
  /\ \E i \in 1..Len(timers) : timers[i].kind = "anim" /\ timers[i].attached
  /\ twin.selectedSquare # NoSquare /\ selectedSquare = NoSquare

=============================================================================
